---- MODULE Spec2Model ----
(***************************************************************************)
(* Model of src/franchisee_tracker.py, the Streamlit script of the Florida *)
(* Franchisee Tracker.                                                     *)
(*                                                                         *)
(* Text values (category tag lists, business names, postal codes, search   *)
(* patterns) are sequences of one-character strings, so that substring and *)
(* regular-expression search, lexicographic ordering and number parsing    *)
(* are computed and not assumed.  City names are compared by equality only *)
(* and are plain strings.  A sentiment polarity is an integer number of    *)
(* tenths (5 stands for 0.5).                                              *)
(***************************************************************************)
EXTENDS Integers, Sequences, FiniteSets, TLC

VARIABLES
    df,             \* the data frame read from florida_with_sentiment.csv
    session_state,  \* st.session_state
    widgets,        \* the values the keyed widgets hold in the browser session
    view,           \* what the last run of the script computed and displayed
    call,           \* function-level checks: the function applied and its arguments
    result          \* function-level checks: what the function returned or raised

vars == <<df, session_state, widgets, view, call, result>>

----------------------------------------------------------------------------
(* Bounds of the function-level checks.                                    *)

MaxPostalLen == 3
MaxPatLen == 2
MaxTextLen == 2
MaxFilterRows == 2
MaxCountRows == 6
MaxGroupRows == 3
MaxRows == 8

----------------------------------------------------------------------------
(* Text helpers.                                                           *)

\* All sequences over S of length at most n.
SeqsUpTo(S, n) == UNION {[1..k -> S] : k \in 0..n}

\* ord(ch) for the characters the model uses.
Ord(ch) ==
    CASE ch = "(" -> 40
      [] ch = "-" -> 45
      [] ch = "." -> 46
      [] ch = "/" -> 47
      [] ch = "0" -> 48
      [] ch = "1" -> 49
      [] ch = "2" -> 50
      [] ch = "3" -> 51
      [] ch = "4" -> 52
      [] ch = "5" -> 53
      [] ch = "6" -> 54
      [] ch = "7" -> 55
      [] ch = "8" -> 56
      [] ch = "9" -> 57
      [] ch = "A" -> 65
      [] ch = "B" -> 66
      [] ch = "a" -> 97
      [] ch = "b" -> 98
      [] ch = "f" -> 102
      [] ch = "i" -> 105
      [] ch = "n" -> 110
      [] OTHER -> 0

\* str.lower() on one character.
LowerChar(ch) ==
    CASE ch = "A" -> "a"
      [] ch = "B" -> "b"
      [] OTHER -> ch

\* A missing value of a text column (pandas NaN): not a text.
NaN == <<"NaN">>

\* k.lower() in s.lower(): plain case-insensitive substring containment.
ContainsSubstring(s, k) ==
    /\ s # NaN
    /\ \E i \in 1..(Len(s) - Len(k) + 1) :
          \A j \in 1..Len(k) : LowerChar(s[i + j - 1]) = LowerChar(k[j])

\* Python's comparison of two strings, s < t, by code points.
RECURSIVE TextLess(_, _)
TextLess(s, t) ==
    IF t = <<>> THEN FALSE
    ELSE IF s = <<>> THEN TRUE
    ELSE IF Ord(Head(s)) # Ord(Head(t)) THEN Ord(Head(s)) < Ord(Head(t))
    ELSE TextLess(Tail(s), Tail(t))

----------------------------------------------------------------------------
(* Series.str.contains(pat, case=False, na=False), lines 24 and 26.  The   *)
(* call leaves regex at its default True: pat is compiled as a regular     *)
(* expression with re.IGNORECASE and searched for in every value.  Of the  *)
(* regular-expression syntax the model has literal characters, "." (any    *)
(* character) and "(" which, with no ")" in the alphabet, never closes and *)
(* makes re.compile raise re.error.                                        *)

PatternCompiles(pat) == \A j \in 1..Len(pat) : pat[j] # "("

RegexSearch(pat, s) ==
    \E i \in 1..(Len(s) - Len(pat) + 1) :
        \A j \in 1..Len(pat) :
            \/ pat[j] = "."
            \/ LowerChar(pat[j]) = LowerChar(s[i + j - 1])

str_contains(s, pat) == s # NaN /\ RegexSearch(pat, s)

Raised(exc) == [status |-> "raised", exc |-> exc]
Returned(v) == [status |-> "returned", value |-> v]

\* def filter_data(city, category, business_name=None) over the frame d.
filter_data(d, city, category, business_name) ==
    IF ~PatternCompiles(category) THEN Raised("re.error")
    ELSE
        LET InCity(r) == r.city = city /\ str_contains(r.categories, category)
            ByName(r) == str_contains(r.name, business_name)
            filtered == SelectSeq(d, InCity)
        IN  IF business_name # <<>>
            THEN IF ~PatternCompiles(business_name) THEN Raised("re.error")
                 ELSE Returned(SelectSeq(filtered, ByName))
            ELSE Returned(filtered)

----------------------------------------------------------------------------
(* format_postal_code, lines 39-44.                                        *)

Digits == {"0", "1", "2", "3", "4", "5", "6", "7", "8", "9"}
DigitValue(ch) == Ord(ch) - 48
DigitChar(n) == CHOOSE ch \in Digits : DigitValue(ch) = n

RECURSIVE DigitsToNat(_)
DigitsToNat(s) ==
    IF s = <<>> THEN 0
    ELSE 10 * DigitsToNat(SubSeq(s, 1, Len(s) - 1)) + DigitValue(s[Len(s)])

\* str(n) of a natural number.
RECURSIVE NatToStr(_)
NatToStr(n) ==
    IF n < 10 THEN <<DigitChar(n)>>
    ELSE Append(NatToStr(n \div 10), DigitChar(n % 10))

\* str(i) of an integer.
IntToStr(i) == IF i < 0 THEN <<"-">> \o NatToStr(-i) ELSE NatToStr(i)

\* A float: finite (sign, magnitude of the integer part, whether a fraction
\* is left), an infinity or a NaN; or the ValueError float() raises.
FiniteFloat(neg, ip, frac) == [cls |-> "finite", neg |-> neg, ip |-> ip, frac |-> frac]
InfFloat(neg) == [cls |-> "inf", neg |-> neg]
NanFloat == [cls |-> "nan"]
NoFloat == [cls |-> "ValueError"]

\* float(s) of a string: an optional sign, then inf, nan, or digits with at
\* most one point and at least one digit.
ParseFloat(s) ==
    LET neg == s # <<>> /\ Head(s) = "-"
        body == IF neg THEN Tail(s) ELSE s
        dots == {i \in 1..Len(body) : body[i] = "."}
        dot == IF dots = {} THEN Len(body) + 1 ELSE CHOOSE i \in dots : TRUE
        whole == SubSeq(body, 1, dot - 1)
        part == SubSeq(body, dot + 1, Len(body))
    IN  IF body = <<"i", "n", "f">> THEN InfFloat(neg)
        ELSE IF body = <<"n", "a", "n">> THEN NanFloat
        ELSE IF /\ Cardinality(dots) <= 1
                /\ Len(whole) + Len(part) >= 1
                /\ \A i \in 1..Len(body) : body[i] \in Digits \/ i = dot
        THEN FiniteFloat(neg, DigitsToNat(whole), \E i \in 1..Len(part) : part[i] # "0")
        ELSE NoFloat

\* The values a postal_code cell can hold: a text, an int, a float, None.
StrValue(s) == [type |-> "str", s |-> s]
IntValue(i) == [type |-> "int", i |-> i]
FloatValue(f) == [type |-> "float", f |-> f]
NoneValue == [type |-> "NoneType"]

\* float(x)
ToFloat(x) ==
    CASE x.type = "str" -> ParseFloat(x.s)
      [] x.type = "int" -> FiniteFloat(x.i < 0, IF x.i < 0 THEN -x.i ELSE x.i, FALSE)
      [] x.type = "float" -> x.f
      [] OTHER -> [cls |-> "TypeError"]

\* str(x)
ToStr(x) ==
    CASE x.type = "str" -> x.s
      [] x.type = "int" -> IntToStr(x.i)
      [] x.type = "float" ->
            IF x.f.cls = "nan" THEN <<"n", "a", "n">>
            ELSE IF x.f.cls = "inf"
            THEN (IF x.f.neg THEN <<"-">> ELSE <<>>) \o <<"i", "n", "f">>
            ELSE (IF x.f.neg THEN <<"-">> ELSE <<>>) \o NatToStr(x.f.ip)
                    \o <<".">> \o (IF x.f.frac THEN <<"5">> ELSE <<"0">>)
      [] OTHER -> <<"N", "o", "n", "e">>

\* int(f) truncates towards zero; int(nan) raises ValueError and int(inf)
\* raises OverflowError.  The except clause names ValueError and TypeError.
format_postal_code(x) ==
    LET f == ToFloat(x)
    IN  CASE f.cls = "finite" -> Returned(IntToStr(IF f.neg THEN -f.ip ELSE f.ip))
          [] f.cls = "inf" -> Raised("OverflowError")
          [] OTHER -> Returned(ToStr(x))

----------------------------------------------------------------------------
(* Tables: groupby, sort_values, unique.                                   *)

\* Series.unique(): the distinct values in order of first appearance.
RECURSIVE unique(_)
unique(s) ==
    IF s = <<>> THEN <<>>
    ELSE LET front == unique(SubSeq(s, 1, Len(s) - 1))
             last == s[Len(s)]
         IN  IF \E i \in 1..Len(front) : front[i] = last THEN front
             ELSE Append(front, last)

Column(rows, Field(_)) == [i \in 1..Len(rows) |-> Field(rows[i])]

NameOf(r) == r.name
PostalOf(r) == r.postal_code
SentimentOf(r) == r.sentiment

\* The permutations of 1..n.
IndexOrders(n) == {p \in [1..n -> 1..n] : \A i, j \in 1..n : p[i] = p[j] => i = j}

\* groupby('name').size().reset_index(name='franchisee_count'), line 140:
\* one row per name with the number of rows that carry it; groupby sorts
\* the group keys (sort=True) and drops missing keys (dropna=True).
groupby_name_size(filtered_data) ==
    LET present == SelectSeq(Column(filtered_data, NameOf), LAMBDA n : n # NaN)
        keys == SortSeq(unique(present), TextLess)
    IN  [i \in 1..Len(keys) |->
            [name |-> keys[i],
             franchisee_count |->
                Cardinality({j \in 1..Len(filtered_data) : filtered_data[j].name = keys[i]})]]

\* Mutant of CountOrder: ascending left at its default True.
CountOrderAscending(a, b) == a <= b

\* Whether sort_values('franchisee_count', ascending=False) accepts the order.
CountOrder(a, b) == a >= b

\* sort_values('franchisee_count', ascending=False), line 141, with the
\* default kind='quicksort', which is not stable: every arrangement of the
\* rows with the counts in descending order is a possible result.
sort_values(table) ==
    {[i \in 1..Len(table) |-> table[p[i]]] :
        p \in {q \in IndexOrders(Len(table)) :
                \A i \in 1..(Len(table) - 1) :
                    CountOrder(table[q[i]].franchisee_count,
                               table[q[i + 1]].franchisee_count)}}

\* The number of stores a business must exceed, line 154.
Threshold == 2

\* Mutant of ExceedsThreshold: >= written for >.
ReachesThreshold(count) == count >= Threshold

ExceedsThreshold(count) == count > Threshold

\* business_counts[business_counts['franchisee_count'] > 2]['name'].tolist()
multiple_franchise(business_counts) ==
    Column(SelectSeq(business_counts, LAMBDA t : ExceedsThreshold(t.franchisee_count)),
           NameOf)

----------------------------------------------------------------------------
(* Sentiment aggregation, lines 184-190 and 303-318.                       *)

RECURSIVE SumSeq(_)
SumSeq(s) == IF s = <<>> THEN 0 ELSE Head(s) + SumSeq(Tail(s))

CountIf(s, Test(_)) == Cardinality({i \in 1..Len(s) : Test(s[i])})

\* Mutant of IsPositive: a zero polarity counted as positive too.
IsNotNegative(x) == x >= 0

IsPositive(x) == x > 0
IsNegative(x) == x < 0
IsNeutral(x) == x = 0

\* Series.mean(): the sum over the count as a fraction; NaN of no values.
mean(s) == IF s = <<>> THEN "NaN" ELSE [sum |-> SumSeq(s), over |-> Len(s)]

\* The named aggregations of lines 185-189 on one sentiment series.
agg(x) ==
    [positive_reviews |-> CountIf(x, IsPositive),
     negative_reviews |-> CountIf(x, IsNegative),
     neutral_reviews |-> CountIf(x, IsNeutral),
     mean_sentiment |-> mean(x),
     sentiment_count |-> Len(x)]

GroupKey(r) == <<r.business_id, r.name, r.postal_code>>

\* Tuples of texts compare component by component.
KeyLess(a, b) ==
    \E i \in 1..3 :
        /\ \A j \in 1..(i - 1) : a[j] = b[j]
        /\ TextLess(a[i], b[i])

\* groupby(['business_id', 'name', 'postal_code'])['sentiment'].agg(...)
\* .reset_index(): one row per key, the keys sorted.
sentiment_summary(selected_business_data) ==
    LET keys == SortSeq(unique(Column(selected_business_data, GroupKey)), KeyLess)
    IN  [i \in 1..Len(keys) |->
            [business_id |-> keys[i][1], name |-> keys[i][2], postal_code |-> keys[i][3]]
                @@ agg(Column(SelectSeq(selected_business_data,
                                        LAMBDA r : GroupKey(r) = keys[i]),
                              SentimentOf))]

AllLocations == <<"All Locations">>

\* Lines 260-263.
location_options(selected_business_data) ==
    <<AllLocations>> \o unique(Column(selected_business_data, PostalOf))

\* Line 303.
location_data(selected_business_data, selected_postal) ==
    SelectSeq(selected_business_data, LAMBDA r : r.postal_code = selected_postal)

\* Lines 304-318: the statistics of one location, written only for a
\* location with rows; with none the block is passed over and nothing is
\* reported.
location_statistics(rows) ==
    IF Len(rows) > 0
    THEN [shown |-> TRUE,
          positive_count |-> CountIf(Column(rows, SentimentOf), IsPositive),
          negative_count |-> CountIf(Column(rows, SentimentOf), IsNegative),
          neutral_count |-> CountIf(Column(rows, SentimentOf), IsNeutral),
          avg_sentiment |-> mean(Column(rows, SentimentOf)),
          total |-> Len(rows)]
    ELSE [shown |-> FALSE]

----------------------------------------------------------------------------
(* Function-level checks: each step applies one function of the script to  *)
(* an argument drawn from a bounded set.                                   *)

PostalChars == {"3", "0", ".", "-", "i", "n", "f", "a", "/"}
PostalValues ==
    {StrValue(s) : s \in SeqsUpTo(PostalChars, MaxPostalLen)}
        \cup {IntValue(i) : i \in {0, 7, 33101}}
        \cup {FloatValue(FiniteFloat(n, i, fr)) :
                n \in BOOLEAN, i \in {0, 33101}, fr \in BOOLEAN}
        \cup {FloatValue(NanFloat), FloatValue(InfFloat(FALSE)), NoneValue}

NoCall == [fn |-> "none"]
NoResult == [status |-> "none"]

IdleSession ==
    /\ df = <<>>
    /\ session_state = [submitted |-> FALSE]
    /\ widgets = <<>>
    /\ view = [outcome |-> "none"]

\* Line 90 applies format_postal_code to one cell.
CallFormatPostalCode ==
    /\ call.fn = "format_postal_code"
    /\ result = NoResult
    /\ result' = format_postal_code(call.postal_code)
    /\ UNCHANGED <<df, session_state, widgets, view, call>>

PostalInit ==
    /\ IdleSession
    /\ call \in {[fn |-> "format_postal_code", postal_code |-> x] : x \in PostalValues}
    /\ result = NoResult

PostalSpec == PostalInit /\ [][CallFormatPostalCode]_vars

\* C7 (as claimed): format_postal_code never raises; a value that converts
\* to a number comes back as the decimal string of its integer part, and a
\* value that does not convert comes back as its own string.
C7_PostalTotal ==
    (call.fn = "format_postal_code" /\ result # NoResult) =>
        LET f == ToFloat(call.postal_code)
        IN  /\ result.status = "returned"
            /\ f.cls = "finite" =>
                  result.value = IntToStr(IF f.neg THEN -f.ip ELSE f.ip)
            /\ f.cls \in {"ValueError", "TypeError"} =>
                  result.value = ToStr(call.postal_code)

\* The examples of the claim, which the code does satisfy.
C7_Examples ==
    /\ format_postal_code(StrValue(<<"3", "3", "1", "0", "1", ".", "0">>))
          = Returned(<<"3", "3", "1", "0", "1">>)
    /\ format_postal_code(IntValue(33101)) = Returned(<<"3", "3", "1", "0", "1">>)
    /\ format_postal_code(StrValue(<<"N", "/", "A">>)) = Returned(<<"N", "/", "A">>)

----------------------------------------------------------------------------
(* filter_data applied to small frames.                                    *)

Row(b, n, c, k, p, s) ==
    [business_id |-> b, name |-> n, city |-> c, categories |-> k,
     postal_code |-> p, sentiment |-> s]

FilterCities == {"Tampa", "tampa"}
FilterRows ==
    {Row(<<"a">>, n, c, k, StrValue(<<"3">>), 0) :
        n \in {<<"a">>, <<"B">>},
        c \in FilterCities,
        k \in SeqsUpTo({"a", "B"}, MaxTextLen) \cup {NaN}}
QueryCities == {"Tampa"}
CategoryPatterns == SeqsUpTo({"a", "A", ".", "("}, MaxPatLen)
NamePatterns == SeqsUpTo({"b", ".", "("}, 1)

CallFilterData ==
    /\ call.fn = "filter_data"
    /\ result = NoResult
    /\ result' = filter_data(call.df, call.city, call.category, call.business_name)
    /\ UNCHANGED <<df, session_state, widgets, view, call>>

FilterInit ==
    /\ IdleSession
    /\ call \in {[fn |-> "filter_data", df |-> d, city |-> c, category |-> k,
                  business_name |-> n] :
                    d \in SeqsUpTo(FilterRows, MaxFilterRows), c \in QueryCities,
                    k \in CategoryPatterns, n \in NamePatterns}
    /\ result = NoResult

FilterSpec == FilterInit /\ [][CallFilterData]_vars

\* C1 (as claimed): filter_data returns exactly the records, in dataset
\* order, whose city equals the city, whose category tag list contains the
\* category as a case-insensitive substring and, when a business name is
\* given, whose name contains it as a case-insensitive substring.
C1_FilterExact ==
    (call.fn = "filter_data" /\ result # NoResult) =>
        LET Wanted(r) ==
                /\ r.city = call.city
                /\ ContainsSubstring(r.categories, call.category)
                /\ call.business_name # <<>> =>
                      ContainsSubstring(r.name, call.business_name)
        IN  result = Returned(SelectSeq(call.df, Wanted))

\* What does hold: the claim for search texts free of regular-expression
\* syntax.
C1_FilterExactPlain ==
    (/\ call.fn = "filter_data" /\ result # NoResult
     /\ \A j \in 1..Len(call.category) : call.category[j] \notin {".", "("}
     /\ \A j \in 1..Len(call.business_name) : call.business_name[j] \notin {".", "("})
        => C1_FilterExact

----------------------------------------------------------------------------
(* Lines 139-154 applied to small filtered frames.  A business_id belongs  *)
(* to one business: locations 1 and 2 are stores of "b", 3 and 4 of "B"    *)
(* ("B" sorts before "b").                                                 *)

CountRows ==
    {Row(<<"1">>, <<"b">>, "Tampa", <<"a">>, <<"3">>, 0),
     Row(<<"2">>, <<"b">>, "Tampa", <<"a">>, <<"3">>, 0),
     Row(<<"3">>, <<"B">>, "Tampa", <<"a">>, <<"3">>, 0),
     Row(<<"4">>, <<"B">>, "Tampa", <<"a">>, <<"3">>, 0)}

CallBusinessCounts ==
    /\ call.fn = "business_counts"
    /\ result = NoResult
    /\ \E t \in sort_values(groupby_name_size(call.filtered_data)) :
          result' = [status |-> "returned",
                     business_counts |-> t,
                     multiple_franchise_businesses |-> multiple_franchise(t)]
    /\ UNCHANGED <<df, session_state, widgets, view, call>>

CountsInit ==
    /\ IdleSession
    /\ call \in {[fn |-> "business_counts", filtered_data |-> d] :
                    d \in SeqsUpTo(CountRows, MaxCountRows)}
    /\ result = NoResult

CountsSpec == CountsInit /\ [][CallBusinessCounts]_vars

\* The distinct business identifiers that carry a name.
LocationsOf(rows, name) == {rows[i].business_id : i \in {j \in 1..Len(rows) : rows[j].name = name}}

\* The position of the first row that carries a name.
FirstRow(rows, name) == CHOOSE i \in 1..Len(rows) :
    /\ rows[i].name = name
    /\ \A j \in 1..(i - 1) : rows[j].name # name

\* C2 (as claimed): the franchisee_count of every business name is the
\* number of distinct business identifiers under that name.
C2_CountIsDistinctLocations ==
    (call.fn = "business_counts" /\ result # NoResult) =>
        \A i \in 1..Len(result.business_counts) :
            result.business_counts[i].franchisee_count
                = Cardinality(LocationsOf(call.filtered_data, result.business_counts[i].name))

\* The counts are in descending order down the table.
CountsDescending(t) ==
    \A i, j \in 1..Len(t) : i < j => t[i].franchisee_count >= t[j].franchisee_count

\* C3 (as claimed): the table is ordered by count descending and names
\* with equal counts are in the order of their first rows.
C3_StableDescending ==
    (call.fn = "business_counts" /\ result # NoResult) =>
        LET t == result.business_counts
        IN  /\ CountsDescending(t)
            /\ \A i, j \in 1..Len(t) :
                  (i < j /\ t[i].franchisee_count = t[j].franchisee_count) =>
                      FirstRow(call.filtered_data, t[i].name)
                          < FirstRow(call.filtered_data, t[j].name)

\* C3 (amended): the table has one row for each business name of the
\* filtered rows, each with the number of rows that carry the name, and
\* the counts are in descending order; nothing is promised about the order
\* of names with equal counts.
C3_Descending ==
    (call.fn = "business_counts" /\ result # NoResult) =>
        LET t == result.business_counts
            d == call.filtered_data
        IN  /\ CountsDescending(t)
            /\ {t[i].name : i \in 1..Len(t)} = {d[i].name : i \in 1..Len(d)}
            /\ Len(t) = Cardinality({d[i].name : i \in 1..Len(d)})
            /\ \A i \in 1..Len(t) :
                  t[i].franchisee_count
                      = Cardinality({j \in 1..Len(d) : d[j].name = t[i].name})

\* A tie: two names have equal counts, and the table lists the one that
\* was met later in the rows first.
C3_Witness ==
    /\ call.fn = "business_counts" /\ result # NoResult
    /\ Len(result.business_counts) = 2
    /\ result.business_counts[1].franchisee_count = result.business_counts[2].franchisee_count
    /\ FirstRow(call.filtered_data, result.business_counts[1].name)
          > FirstRow(call.filtered_data, result.business_counts[2].name)

\* C4: the candidate list holds exactly the names whose count is at least
\* 3, each once, in the order they have in the counts table.
C4_Candidates ==
    (call.fn = "business_counts" /\ result # NoResult) =>
        LET t == result.business_counts
            c == result.multiple_franchise_businesses
            Place(n) == CHOOSE i \in 1..Len(t) : t[i].name = n
        IN  /\ {c[i] : i \in 1..Len(c)}
                  = {t[i].name : i \in {j \in 1..Len(t) : t[j].franchisee_count >= 3}}
            /\ \A i, j \in 1..Len(c) : i < j => Place(c[i]) < Place(c[j])

\* One business with three rows is listed and one with two is not.
C4_Witness ==
    /\ call.fn = "business_counts" /\ result # NoResult
    /\ Len(result.business_counts) = 2
    /\ result.business_counts[1].franchisee_count = 3
    /\ result.business_counts[2].franchisee_count = 2
    /\ Len(result.multiple_franchise_businesses) = 1

----------------------------------------------------------------------------
(* Lines 184-190 and 259-318 applied to the rows of one selected business. *)
(* A location has one postal code: locations 1 and 2 share postal code 3   *)
(* and location 5 has postal code 7.                                       *)

Sentiments == {-2, 0, 5}
BusinessRows ==
    {Row(<<"1">>, <<"b">>, "Tampa", <<"a">>, <<"3">>, s) : s \in Sentiments}
        \cup {Row(<<"2">>, <<"b">>, "Tampa", <<"a">>, <<"3">>, s) : s \in Sentiments}
        \cup {Row(<<"5">>, <<"b">>, "Tampa", <<"a">>, <<"7">>, s) : s \in Sentiments}

OptionsOf(s) == {s[i] : i \in 1..Len(s)}

\* Lines 176-318 for a selected business with rows and a postal choice.
CallSummarizeBusiness ==
    /\ call.fn = "summarize_business"
    /\ result = NoResult
    /\ result' =
          [status |-> "returned",
           sentiment_summary |-> sentiment_summary(call.selected_business_data),
           location_options |-> location_options(call.selected_business_data),
           statistics |->
              IF call.selected_postal = AllLocations THEN [shown |-> FALSE]
              ELSE location_statistics(
                      location_data(call.selected_business_data, call.selected_postal))]
    /\ UNCHANGED <<df, session_state, widgets, view, call>>

\* The aggregation of lines 185-189 and the statistics block of lines
\* 304-318 on one group of rows, which may be empty.
CallSummarizeLocation ==
    /\ call.fn = "summarize_location"
    /\ result = NoResult
    /\ result' =
          [status |-> "returned",
           summary |-> agg(Column(call.rows, SentimentOf)),
           statistics |-> location_statistics(call.rows)]
    /\ UNCHANGED <<df, session_state, widgets, view, call>>

SummaryInit ==
    /\ IdleSession
    /\ call \in
          {[fn |-> "summarize_location", rows |-> g] : g \in SeqsUpTo(BusinessRows, MaxGroupRows)}
            \cup UNION {{[fn |-> "summarize_business", selected_business_data |-> d,
                          selected_postal |-> sp] : sp \in OptionsOf(location_options(d))} :
                            d \in SeqsUpTo(BusinessRows, MaxGroupRows) \ {<<>>}}
    /\ result = NoResult

SummaryNext == CallSummarizeBusiness \/ CallSummarizeLocation
SummarySpec == SummaryInit /\ [][SummaryNext]_vars

\* C5: for a non-empty group of rows of one location, the positive,
\* negative and neutral counts add up to the total, which is the number of
\* rows; in the summary table and in the location statistics.
C5_CountsAddUp ==
    /\ (call.fn = "summarize_location" /\ result # NoResult /\ call.rows # <<>>) =>
          /\ result.summary.positive_reviews + result.summary.negative_reviews
                + result.summary.neutral_reviews = result.summary.sentiment_count
          /\ result.summary.sentiment_count = Len(call.rows)
          /\ result.statistics.shown
          /\ result.statistics.positive_count + result.statistics.negative_count
                + result.statistics.neutral_count = result.statistics.total
          /\ result.statistics.total = Len(call.rows)
    /\ (call.fn = "summarize_business" /\ result # NoResult) =>
          \A i \in 1..Len(result.sentiment_summary) :
              LET s == result.sentiment_summary[i]
              IN  /\ s.positive_reviews + s.negative_reviews + s.neutral_reviews
                        = s.sentiment_count
                  /\ s.sentiment_count
                        = Cardinality({j \in 1..Len(call.selected_business_data) :
                              call.selected_business_data[j].business_id = s.business_id})

\* A group with one review of each class has been summarised.
C5_Witness ==
    /\ call.fn = "summarize_location" /\ result # NoResult
    /\ result.summary.positive_reviews = 1
    /\ result.summary.negative_reviews = 1
    /\ result.summary.neutral_reviews = 1
    /\ result.statistics.total = 3

RowsOfLocation(rows, id) == SelectSeq(rows, LAMBDA r : r.business_id = id)

FirstRowOfLocation(rows, id) == CHOOSE i \in 1..Len(rows) :
    /\ rows[i].business_id = id
    /\ \A j \in 1..(i - 1) : rows[j].business_id # id

\* C8, first part: one summary per business identifier, each over all and
\* only the rows of that identifier.
C8_OnePerLocation ==
    (call.fn = "summarize_business" /\ result # NoResult) =>
        LET d == call.selected_business_data
            t == result.sentiment_summary
        IN  /\ Len(t) = Cardinality({d[i].business_id : i \in 1..Len(d)})
            /\ \A i \in 1..Len(t) :
                  agg(Column(RowsOfLocation(d, t[i].business_id), SentimentOf))
                      = [f \in {"positive_reviews", "negative_reviews", "neutral_reviews",
                                "mean_sentiment", "sentiment_count"} |-> t[i][f]]

\* C8, second part: the summaries are in the order in which the business
\* identifiers first appear in the rows.
C8_FirstAppearanceOrder ==
    (call.fn = "summarize_business" /\ result # NoResult) =>
        LET d == call.selected_business_data
            t == result.sentiment_summary
        IN  \A i, j \in 1..Len(t) :
                i < j => FirstRowOfLocation(d, t[i].business_id)
                            < FirstRowOfLocation(d, t[j].business_id)

\* C8, third part: the statistics of a chosen location are those of the
\* rows of one business identifier, also when two share a postal code.
C8_NeverMerged ==
    (call.fn = "summarize_business" /\ result # NoResult /\ result.statistics.shown) =>
        \E i \in 1..Len(call.selected_business_data) :
            result.statistics.total
                = Len(RowsOfLocation(call.selected_business_data,
                                     call.selected_business_data[i].business_id))

\* C8 (as claimed): the per-location summaries partition the rows of the
\* selected business by business identifier, in order of first appearance,
\* and never merge two identifiers.
C8_PartitionByLocation ==
    /\ C8_OnePerLocation
    /\ C8_FirstAppearanceOrder
    /\ C8_NeverMerged

----------------------------------------------------------------------------
(* The script, lines 9-331, run from top to bottom on every interaction.   *)

\* Python's None, and a key that st.session_state does not hold.
None == <<"None">>
Absent == <<"absent">>

\* The messages and sections a run can put on the page.
Success == "success: Found businesses"                      \* line 86
NoResults == "error: No businesses found"                   \* line 329
NoMultiFranchise == "warning: No businesses with multiple franchisees"  \* line 327
NeedInput == "warning: Please select a city and category"   \* line 331
Exception == "exception"     \* an uncaught exception ends the run

\* Lines 10-17 on a new session.
initial_session_state ==
    [city |-> "None", category |-> <<>>, business_name |-> <<>>, submitted |-> FALSE,
     selected_business |-> Absent, selected_postal |-> Absent]

\* df['city'].unique(), the options of the city selectbox, line 61.
city_options(d) == unique(Column(d, LAMBDA r : r.city))

\* The widgets of a new session: the city selectbox shows its first option
\* and the text inputs their initial value.
initial_widgets(d) ==
    [city_select |-> city_options(d)[1], category_input |-> <<>>,
     business_name_input |-> <<>>, business_select |-> Absent, postal_select |-> Absent]

Position(options, v) == CHOOSE i \in 1..Len(options) : options[i] = v

\* The index argument of lines 166 and 279 (counted from 1 here):
\* options.index(current) if current in options else 0.
selectbox_index(options, current) ==
    IF current \in OptionsOf(options) THEN Position(options, current) ELSE 1

\* st.selectbox(label, options, index, key): what the call can return.  A
\* choice the user has just made among these options is returned.  Else
\* the widget returns the option at index, or the value it held in the
\* previous run when that is still an option (whether a keyed selectbox
\* keeps its value when its options or index change differs between
\* Streamlit releases).
selectbox(options, index, held, picked) ==
    IF picked \in OptionsOf(options) THEN {picked}
    ELSE {options[index]} \cup (OptionsOf(options) \cap {held})

\* Mutant of store_selection: the session state is written only while it
\* holds no selection.
keep_selection(old, selected) == IF old \in {Absent, None} THEN selected ELSE old

\* Lines 171 and 284: the session state takes the value the selectbox gave.
store_selection(old, selected) == selected

\* Line 90: format_postal_code applied to the postal_code column.
FormatPostalCodes(rows) ==
    IF \E i \in 1..Len(rows) : format_postal_code(rows[i].postal_code).status = "raised"
    THEN Raised("OverflowError")
    ELSE Returned([i \in 1..Len(rows) |->
            [rows[i] EXCEPT !.postal_code = format_postal_code(@).value]])

\* A page with no analysis on it.
BlankView(ss0) ==
    [messages |-> {}, filtered_data |-> <<>>, business_counts |-> <<>>,
     multiple_franchise_businesses |-> <<>>, selected_business |-> Absent,
     sentiment_summary |-> <<>>, summarized |-> FALSE, location_options |-> <<>>,
     selected_postal |-> Absent, statistics |-> [shown |-> FALSE],
     before |-> [selected_business |-> ss0.selected_business,
                 selected_postal |-> ss0.selected_postal]]

\* A widget that a run does not reach loses its value.
Unrendered(w) == [w EXCEPT !.business_select = Absent, !.postal_select = Absent]

Outcome(ss, w, v) == [session_state |-> ss, widgets |-> w, view |-> v]

\* Lines 176-325 for the selected business b.
LocationSection(ss, w, v, b, pickedPostal) ==
    LET selected_business_data == SelectSeq(v.filtered_data, LAMBDA r : r.name = b)
        options == location_options(selected_business_data)
        current == IF ss.selected_postal = Absent THEN AllLocations ELSE ss.selected_postal
    IN  {Outcome(
            [ss EXCEPT !.selected_postal = store_selection(current, p)],
            [w EXCEPT !.postal_select = p],
            [v EXCEPT !.selected_business = b,
                      !.sentiment_summary = sentiment_summary(selected_business_data),
                      !.summarized = TRUE,
                      !.location_options = options,
                      !.selected_postal = p,
                      !.statistics =
                          IF p = AllLocations THEN [shown |-> FALSE]
                          ELSE location_statistics(location_data(selected_business_data, p))]) :
            p \in selectbox(options, selectbox_index(options, current),
                            w.postal_select, pickedPostal)}

\* Lines 153-327 for one arrangement of the counts table.
BusinessSection(ss0, w, v0, business_counts, pickedBusiness, pickedPostal) ==
    LET candidates == multiple_franchise(business_counts)
        v == [v0 EXCEPT !.business_counts = business_counts,
                        !.multiple_franchise_businesses = candidates]
        ss == IF ss0.selected_business = Absent
              THEN [ss0 EXCEPT !.selected_business =
                        IF candidates = <<>> THEN None ELSE candidates[1]]
              ELSE ss0
    IN  IF candidates # <<>>
        THEN UNION {LocationSection(
                        [ss EXCEPT !.selected_business = store_selection(@, b)],
                        [w EXCEPT !.business_select = b], v, b, pickedPostal) :
                    b \in selectbox(candidates,
                                    selectbox_index(candidates, ss.selected_business),
                                    w.business_select, pickedBusiness)}
        ELSE {Outcome(ss, Unrendered(w),
                      [v EXCEPT !.messages = @ \cup {NoMultiFranchise}])}

\* One run of the script on the frame d, from the session state ss0, with
\* the widget values w and what the user has just picked in a selectbox.
RunScript(d, ss0, w, pickedBusiness, pickedPostal) ==
    LET ss == [ss0 EXCEPT !.city = w.city_select,
                          !.category = w.category_input,
                          !.business_name = w.business_name_input]
        blank == BlankView(ss0)
        Stop(messages) == {Outcome(ss, Unrendered(w), [blank EXCEPT !.messages = messages])}
    IN  IF ~ss.submitted THEN Stop({})
        ELSE IF ss.city = "None" \/ ss.category = <<>> THEN Stop({NeedInput})
        ELSE
            LET found == filter_data(d, ss.city, ss.category, ss.business_name)
            IN  IF found.status = "raised" THEN Stop({Exception})
                ELSE IF Len(found.value) = 0 THEN Stop({NoResults})
                ELSE
                    LET formatted == FormatPostalCodes(found.value)
                    IN  IF formatted.status = "raised" THEN Stop({Success, Exception})
                        ELSE UNION {BusinessSection(ss, w,
                                        [blank EXCEPT !.messages = {Success},
                                                      !.filtered_data = formatted.value],
                                        t, pickedBusiness, pickedPostal) :
                                    t \in sort_values(groupby_name_size(formatted.value))}

----------------------------------------------------------------------------
(* The session: the frame and what the user can do.                        *)

Float(i) == FloatValue(FiniteFloat(FALSE, i, FALSE))

\* Rows of the kind florida_with_sentiment.csv holds; the frame of a
\* session is a run of consecutive rows of this list.  The postal_code
\* column is read as floats, missing where the file has none.
RowPool ==
    <<Row(<<"2">>, <<"b">>, "Tampa", <<"a">>, Float(3), 5),
      Row(<<"1">>, <<"b">>, "Tampa", <<"a">>, Float(3), -2),
      Row(<<"2">>, <<"b">>, "Tampa", <<"a">>, Float(3), 0),
      Row(<<"4">>, <<"B", "a">>, "Tampa", <<"a", "B">>, FloatValue(NanFloat), 5),
      Row(<<"3">>, <<"B", "a">>, "Tampa", <<"a", "B">>, Float(7), -2),
      Row(<<"4">>, <<"B", "a">>, "Tampa", <<"a", "B">>, FloatValue(NanFloat), 0),
      Row(<<"5">>, <<"b">>, "Miami", <<"a">>, Float(7), 5),
      Row(<<"5">>, <<"b">>, "Miami", <<"a">>, Float(7), 0),
      Row(<<"6">>, <<"b">>, "Miami", <<"a">>, Float(3), -2),
      Row(<<"7">>, <<"a">>, "Miami", NaN, Float(3), 5)>>

Frames == {SubSeq(RowPool, i, j) : i, j \in {k \in 1..MaxRows : k <= Len(RowPool)}} \ {<<>>}

CategoryInputs == {<<>>, <<"a">>, <<"b">>, <<".">>, <<"(">>}
BusinessNameInputs == {<<>>, <<"a">>, <<"(">>}

Rerun(w, pickedBusiness, pickedPostal) ==
    /\ \E o \in RunScript(df, session_state, w, pickedBusiness, pickedPostal) :
          /\ session_state' = o.session_state
          /\ widgets' = o.widgets
          /\ view' = o.view
    /\ UNCHANGED <<df, call, result>>

\* The user picks another city.
ChangeCity ==
    \E c \in OptionsOf(city_options(df)) \ {widgets.city_select} :
        Rerun([widgets EXCEPT !.city_select = c], Absent, Absent)

\* The user types another category.
ChangeCategory ==
    \E k \in CategoryInputs \ {widgets.category_input} :
        Rerun([widgets EXCEPT !.category_input = k], Absent, Absent)

\* The user types another business name.
ChangeBusinessName ==
    \E n \in BusinessNameInputs \ {widgets.business_name_input} :
        Rerun([widgets EXCEPT !.business_name_input = n], Absent, Absent)

\* The user clicks Submit: on_submit runs, then the script.
ClickSubmit ==
    \E o \in RunScript(df, [session_state EXCEPT !.submitted = TRUE], widgets, Absent, Absent) :
        /\ session_state' = o.session_state
        /\ widgets' = o.widgets
        /\ view' = o.view
        /\ UNCHANGED <<df, call, result>>

\* The user picks another business in the selectbox of the last page.
SelectBusiness ==
    \E b \in OptionsOf(view.multiple_franchise_businesses) \ {widgets.business_select} :
        Rerun(widgets, b, Absent)

\* The user picks another location in the selectbox of the last page.
SelectPostal ==
    \E p \in OptionsOf(view.location_options) \ {widgets.postal_select} :
        Rerun(widgets, Absent, p)

\* The script runs again with nothing changed (Rerun in the app's menu).
RerunUnchanged == Rerun(widgets, Absent, Absent)

Init ==
    /\ df \in Frames
    /\ \E o \in RunScript(df, initial_session_state, initial_widgets(df), Absent, Absent) :
          /\ session_state = o.session_state
          /\ widgets = o.widgets
          /\ view = o.view
    /\ call = NoCall
    /\ result = NoResult

Next ==
    \/ ChangeCity
    \/ ChangeCategory
    \/ ChangeBusinessName
    \/ ClickSubmit
    \/ SelectBusiness
    \/ SelectPostal
    \/ RerunUnchanged

Spec == Init /\ [][Next]_vars

\* The rows of the frame that the submitted search matches, as the filter
\* is described: equal city, category and (if given) business name found
\* as case-insensitive substrings.
MatchingRows ==
    SelectSeq(df, LAMBDA r :
        /\ r.city = session_state.city
        /\ ContainsSubstring(r.categories, session_state.category)
        /\ session_state.business_name # <<>> =>
              ContainsSubstring(r.name, session_state.business_name))

\* Some business name is carried by more than Threshold of the rows.
HasChain(rows) ==
    \E i \in 1..Len(rows) :
        Cardinality({j \in 1..Len(rows) : rows[j].name = rows[i].name}) > Threshold

SubmittedSearch ==
    /\ session_state.submitted
    /\ session_state.city # "None"
    /\ session_state.category # <<>>

\* C9 (as claimed): after a submission with a city and a category, a
\* search that matches no record gives the "no results" message, a search
\* that matches records none of whose chains is above the threshold gives
\* the "no multi-location chain" message; neither raises, the two messages
\* never appear together, and no location is summarised in either case.
C9_EmptyOutcomes ==
    SubmittedSearch =>
        /\ ~(NoResults \in view.messages /\ NoMultiFranchise \in view.messages)
        /\ MatchingRows = <<>> =>
              /\ view.messages = {NoResults}
              /\ ~view.summarized
        /\ (MatchingRows # <<>> /\ ~HasChain(MatchingRows)) =>
              /\ view.messages = {Success, NoMultiFranchise}
              /\ view.multiple_franchise_businesses = <<>>
              /\ ~view.summarized

\* The same with the rows taken as the script's own filter_data finds them:
\* the guards of lines 84, 160 and 176 do give the two outcomes.
C9_GuardStructure ==
    SubmittedSearch =>
        LET found == filter_data(df, session_state.city, session_state.category,
                                 session_state.business_name)
        IN  found.status = "returned" =>
                /\ ~(NoResults \in view.messages /\ NoMultiFranchise \in view.messages)
                /\ Exception \notin view.messages
                /\ found.value = <<>> =>
                      view.messages = {NoResults} /\ ~view.summarized
                /\ (found.value # <<>> /\ ~HasChain(found.value)) =>
                      /\ view.messages = {Success, NoMultiFranchise}
                      /\ view.multiple_franchise_businesses = <<>>
                      /\ ~view.summarized

\* C10: whenever a run finds franchise candidates, the business it
\* analyses and leaves in session_state.selected_business is one of them,
\* every summary row is of that business, and session_state.selected_postal
\* is one of the run's location options, which are "All Locations" and the
\* postal codes of that business's rows.
C10_SelectionIsCurrent ==
    view.multiple_franchise_businesses # <<>> =>
        /\ view.selected_business \in OptionsOf(view.multiple_franchise_businesses)
        /\ session_state.selected_business = view.selected_business
        /\ \A i \in 1..Len(view.sentiment_summary) :
              view.sentiment_summary[i].name = session_state.selected_business
        /\ view.summarized
        /\ session_state.selected_postal \in OptionsOf(view.location_options)
        /\ session_state.selected_postal = view.selected_postal
        /\ \A p \in OptionsOf(view.location_options) \ {AllLocations} :
              \E i \in 1..Len(view.filtered_data) :
                  /\ view.filtered_data[i].name = session_state.selected_business
                  /\ view.filtered_data[i].postal_code = p

\* A run began with a business and a postal code selected under an earlier
\* search, neither of which the new search offers.
C10_Witness ==
    /\ view.multiple_franchise_businesses # <<>>
    /\ view.before.selected_business
          \notin OptionsOf(view.multiple_franchise_businesses) \cup {Absent, None}
    /\ view.before.selected_postal \notin OptionsOf(view.location_options) \cup {Absent}

====
